---- MODULE Spec2Model ----
(***************************************************************************)
(* Model of flight_price_tracker.py: extraction of flight-price records    *)
(* from notification e-mails, CSV export and chart rendering.              *)
(*                                                                         *)
(* Representation.                                                         *)
(*  - A text is the sequence of its lines (text.split('\n')); the empty    *)
(*    text '' is <<"">> (one empty line), as split returns [''].           *)
(*  - A line is a string of a finite vocabulary; every regular expression  *)
(*    of the source is an operator giving, for each line of the            *)
(*    vocabulary, what re.search returns on it ("" for no match).          *)
(*  - The euro sign U+20AC is written (euro) inside line strings.          *)
(*  - A date string is the sequence of its tokens (words, numbers and the  *)
(*    comma): 'gio 23 ott' is <<"gio","23","ott">>, 'Thu, 23 Oct' is       *)
(*    <<"Thu",",","23","Oct">>, and '' is <<>>.                            *)
(*  - An encoded payload is the sequence of its encoded lines; bytes that  *)
(*    are not ASCII are written <XX> (hexadecimal).                        *)
(***************************************************************************)
EXTENDS Naturals, Integers, Sequences, FiniteSets, TLC

VARIABLES
    pc,           \* position of the running program
    mbox,         \* the message collection given as input
    idx,          \* number of messages parse_mbox_file has iterated over
    all_flights,  \* parse_mbox_file's result list
    csv,          \* the tabular file: "absent" or the sequence of its rows
    plot,         \* TRUE once the chart image has been saved
    log,          \* history: per processed message, its type, the extractors run, its records
    arg,          \* argument of the function under check
    res           \* its result

vars == <<pc, mbox, idx, all_flights, csv, plot, log, arg, res>>

----------------------------------------------------------------------------
(* Generic helpers *)

Range(s) == {s[i] : i \in DOMAIN s}

Min(a, b) == IF a < b THEN a ELSE b

Max(a, b) == IF a > b THEN a ELSE b

\* The subsequence of s whose elements satisfy Test, in order (a list comprehension).
RECURSIVE SelectIdx(_, _, _)
SelectIdx(s, keep, i) ==
    IF i > Len(s) THEN <<>>
    ELSE (IF i \in keep THEN <<s[i]>> ELSE <<>>) \o SelectIdx(s, keep, i + 1)

RECURSIVE Flatten(_)
Flatten(ss) == IF ss = <<>> THEN <<>> ELSE Head(ss) \o Flatten(Tail(ss))

\* All sequences over S of length lo..hi.
SeqsOf(S, lo, hi) == UNION {[1..n -> S] : n \in lo..hi}

----------------------------------------------------------------------------
(* normalize_italian_date *)

\* The dict literal, in source order: 'mar' is written twice.
ItalianToEnglishLiteral ==
    << <<"lun", "Mon">>, <<"mar", "Tue">>, <<"mer", "Wed">>, <<"gio", "Thu">>,
       <<"ven", "Fri">>, <<"sab", "Sat">>, <<"dom", "Sun">>,
       <<"gen", "Jan">>, <<"feb", "Feb">>, <<"mar", "Mar">>, <<"apr", "Apr">>,
       <<"mag", "May">>, <<"giu", "Jun">>, <<"lug", "Jul">>, <<"ago", "Aug">>,
       <<"set", "Sep">>, <<"ott", "Oct">>, <<"nov", "Nov">>, <<"dic", "Dec">> >>

\* A Python dict display: a repeated key keeps its first position and takes
\* its last value.
DictItems(lit) ==
    LET first == {i \in DOMAIN lit : \A j \in 1..(i - 1) : lit[j][1] # lit[i][1]}
        lastOf(k) == CHOOSE j \in DOMAIN lit :
                        /\ lit[j][1] = k
                        /\ \A h \in DOMAIN lit : lit[h][1] = k => h <= j
        keys == SelectIdx(lit, first, 1)
    IN [i \in DOMAIN keys |-> <<keys[i][1], lit[lastOf(keys[i][1])][2]>>]

italian_to_english == DictItems(ItalianToEnglishLiteral)

\* str.lower() on the tokens of the vocabulary.
Lower(tok) ==
    CASE tok = "Gio" -> "gio"
      [] tok = "OTT" -> "ott"
      [] tok = "Mar" -> "mar"
      [] tok = "Mon" -> "mon"
      [] tok = "Tue" -> "tue"
      [] tok = "Wed" -> "wed"
      [] tok = "Thu" -> "thu"
      [] tok = "Fri" -> "fri"
      [] tok = "Sat" -> "sat"
      [] tok = "Sun" -> "sun"
      [] tok = "Jan" -> "jan"
      [] tok = "Feb" -> "feb"
      [] tok = "Apr" -> "apr"
      [] tok = "May" -> "may"
      [] tok = "Jun" -> "jun"
      [] tok = "Jul" -> "jul"
      [] tok = "Aug" -> "aug"
      [] tok = "Sep" -> "sep"
      [] tok = "Oct" -> "oct"
      [] tok = "Nov" -> "nov"
      [] tok = "Dec" -> "dec"
      [] OTHER -> tok

\* \d: tokens that start with a digit.
Numbers == {"1", "2", "3", "23", "24", "25", "27", "28", "95", "120", "2025"}

\* \w{3} followed by white space: tokens of exactly three word characters.
ThreeLetter ==
    {"lun", "mar", "mer", "gio", "ven", "sab", "dom", "gen", "feb", "apr", "mag",
     "giu", "lug", "ago", "set", "ott", "nov", "dic", "Gio", "OTT",
     "Mon", "Tue", "Wed", "Thu", "Fri", "Sat", "Sun", "Jan", "Feb", "Mar", "Apr",
     "May", "Jun", "Jul", "Aug", "Sep", "Oct", "Nov", "Dec",
     "for", "dei", "LIS", "ZRH", "120"}

\* re.sub(r'\b' + italian + r'\b', english, s, flags=re.IGNORECASE): every
\* token equal to the key, case ignored, is replaced.
SubWord(toks, italian, english) ==
    [i \in DOMAIN toks |-> IF Lower(toks[i]) = italian THEN english ELSE toks[i]]

RECURSIVE SubAll(_, _, _)
SubAll(toks, items, k) ==
    IF k > Len(items) THEN toks
    ELSE SubAll(SubWord(toks, items[k][1], items[k][2]), items, k + 1)

\* re.sub(r'^(\w{3})\s+(\d)', r'\1, \2', s)
AddComma(toks) ==
    IF Len(toks) >= 2 /\ toks[1] \in ThreeLetter /\ toks[2] \in Numbers
    THEN <<toks[1], ",">> \o Tail(toks)
    ELSE toks

normalize_italian_date(date_str) ==
    IF "," \in Range(date_str) THEN date_str
    ELSE AddComma(SubAll(date_str, italian_to_english, 1))

----------------------------------------------------------------------------
(* extract_text_from_email *)

EmptyText == <<"">>

\* bytes.decode('utf-8', errors='ignore') of one encoded line: bytes that form
\* no valid UTF-8 sequence are dropped.
Utf8LineIgnore(enc) ==
    CASE enc = "caf<E9>" -> "caf"
      [] enc = "caf<C3><A9>" -> "caf(e-acute)"
      [] enc = "<FF>" -> ""
      [] enc = "120 <E2><82><AC>" -> "120 (euro)"
      [] enc = "<E2><82><AC> 120" -> "(euro) 120"
      [] enc = "95 <E2><82><AC>" -> "95 (euro)"
      [] enc = "<E2><82><AC> 95" -> "(euro) 95"
      [] OTHER -> enc

\* bytes.decode('latin-1') of one encoded line: every byte is one character.
Latin1Line(enc) ==
    CASE enc = "caf<E9>" -> "caf(e-acute)"
      [] enc = "caf<C3><A9>" -> "caf(A-tilde)(copyright)"
      [] enc = "<FF>" -> "(y-diaeresis)"
      [] enc = "120 <E2><82><AC>" -> "120 (a-circumflex)(0x82)(not-sign)"
      [] enc = "<E2><82><AC> 120" -> "(a-circumflex)(0x82)(not-sign) 120"
      [] enc = "95 <E2><82><AC>" -> "95 (a-circumflex)(0x82)(not-sign)"
      [] enc = "<E2><82><AC> 95" -> "(a-circumflex)(0x82)(not-sign) 95"
      [] OTHER -> enc

\* The encoded lines of the vocabulary that are not valid UTF-8.
InvalidUtf8Lines == {"caf<E9>", "<FF>"}

Utf8DecodeIgnore(payload) == [i \in DOMAIN payload |-> Utf8LineIgnore(payload[i])]

Latin1Decode(payload) == [i \in DOMAIN payload |-> Latin1Line(payload[i])]

\* Whether decode('utf-8', errors='ignore') raises: with errors='ignore' it
\* never does, whatever the bytes.
Utf8DecodeRaises(payload) == FALSE

\* try: decode('utf-8', errors='ignore')  except: decode('latin-1', errors='ignore')
DecodePayload(payload) ==
    IF Utf8DecodeRaises(payload) THEN Latin1Decode(payload)
    ELSE Utf8DecodeIgnore(payload)

\* A message is [multipart, parts, date]: parts is what walk() yields below the
\* root, each part [ctype, payload]; a message that is not multipart has its
\* own payload as its single part.
extract_text_from_email(email_message) ==
    IF email_message.multipart
    THEN LET plain == {i \in DOMAIN email_message.parts :
                          email_message.parts[i].ctype = "text/plain"}
         IN IF plain = {} THEN EmptyText
            ELSE DecodePayload(
                     email_message.parts[CHOOSE i \in plain :
                                            \A j \in plain : i <= j].payload)
    ELSE DecodePayload(email_message.parts[1].payload)

----------------------------------------------------------------------------
(* detect_email_type *)

\* marker in text, for the markers the detection looks for
Contains(text, marker) ==
    LET with ==
          CASE marker = "Il prezzo dei tuoi voli" -> {"Il prezzo dei tuoi voli"}
            [] marker = "Da Zurigo a Lisbona" -> {"Da Zurigo a Lisbona"}
            [] marker = "Price updates for 2 saved flights" ->
                   {"Price updates for 2 saved flights"}
            [] marker = "Zurich to Lisbon" -> {"Zurich to Lisbon"}
            [] marker = "Your" -> {"Your price alert", "Your flights have gone up"}
            [] marker = "flights have" ->
                   {"Your flights have gone up", "flights have gone down"}
    IN Range(text) \cap with # {}

\* Mutant of detect_email_type: the two-saved-flights marker is tested first.
detect_email_type_DoubleFirst(text) ==
    IF Contains(text, "Price updates for 2 saved flights")
    THEN "english_double"
    ELSE IF Contains(text, "Il prezzo dei tuoi voli") \/ Contains(text, "Da Zurigo a Lisbona")
    THEN "italian_single"
    ELSE IF /\ Contains(text, "Zurich to Lisbon")
            /\ Contains(text, "Your")
            /\ Contains(text, "flights have")
    THEN "english_single"
    ELSE "None"

detect_email_type(text) ==
    IF Contains(text, "Il prezzo dei tuoi voli") \/ Contains(text, "Da Zurigo a Lisbona")
    THEN "italian_single"
    ELSE IF Contains(text, "Price updates for 2 saved flights")
    THEN "english_double"
    ELSE IF /\ Contains(text, "Zurich to Lisbon")
            /\ Contains(text, "Your")
            /\ Contains(text, "flights have")
    THEN "english_single"
    ELSE "None"

----------------------------------------------------------------------------
(* The regular expressions of the extractors, on the lines of the vocabulary *)

\* re.search(r'(\w+\s+\d{1,2}\s+\w+)', line).group(1), <<>> for no match
ItalianDateMatch(line) ==
    CASE line = "gio 23 ott" -> <<"gio", "23", "ott">>
      [] line = "mar 28 ott" -> <<"mar", "28", "ott">>
      [] line = "lun 3 nov" -> <<"lun", "3", "nov">>
      [] line = "Price updates for 2 saved flights" -> <<"for", "2", "saved">>
      [] line = "Sent 23 October 2025" -> <<"Sent", "23", "October">>
      [] OTHER -> <<>>

\* 'ott' in line.lower()
HasOtt(line) == line \in {"gio 23 ott", "mar 28 ott"}

\* re.search(r'(\w+,\s+\d{1,2}\s+\w+)', line).group(1), <<>> for no match
EnglishDateMatch(line) ==
    CASE line = "Fri, 24 Oct" -> <<"Fri", ",", "24", "Oct">>
      [] line = "Mon, 27 Oct" -> <<"Mon", ",", "27", "Oct">>
      [] line = "Sat, 25 Oct" -> <<"Sat", ",", "25", "Oct">>
      [] line = "Tue, 28 Oct" -> <<"Tue", ",", "28", "Oct">>
      [] line = "Sat, 1 Nov" -> <<"Sat", ",", "1", "Nov">>
      [] OTHER -> <<>>

\* 'Oct' in line
HasOct(line) ==
    line \in {"Fri, 24 Oct", "Mon, 27 Oct", "Sat, 25 Oct", "Tue, 28 Oct",
              "Sent 23 October 2025"}

\* re.search(r'^(\d{1,2}:\d{2})\s*-\s*$', line.strip()).group(1), "" for no match
TimeMatch(line) ==
    CASE line = "10:40 -" -> "10:40"
      [] line = "18:05 -" -> "18:05"
      [] line = "07:15 -" -> "07:15"
      [] line = "21:30 -" -> "21:30"
      [] OTHER -> ""

\* re.search(r'^([A-Z]{3})\s*-\s*$', line.strip()).group(1), "" for no match
AirportMatch(line) ==
    CASE line = "ZRH -" -> "ZRH"
      [] line = "LIS -" -> "LIS"
      [] OTHER -> ""

\* re.search(r'^([A-Z]{3})', line.strip()).group(1), "" for no match
NextAirportMatch(line) ==
    CASE line \in {"ZRH -", "ZRH"} -> "ZRH"
      [] line \in {"LIS -", "LIS"} -> "LIS"
      [] OTHER -> ""

\* 'aumentato' in line.lower() or 'diminuito' in line.lower() or 'sceso' in line.lower()
ItalianKeyword(line) == line \in {"prezzo aumentato", "prezzo diminuito", "Prezzo SCESO"}

\* 'gone up' in line.lower() or 'gone down' in line.lower()
EnglishKeyword(line) ==
    line \in {"Your flights have gone up", "flights have gone down",
              "The price has gone down"}

\* re.search(r'(euro)\s*(\d+)', line).group(1), "" for no match
ItalianPriceMatch(line) ==
    CASE line = "(euro) 120" -> "120"
      [] line = "(euro) 95" -> "95"
      [] OTHER -> ""

\* re.search(r'(\d+)\s*(euro)', line).group(1), "" for no match
EnglishPriceMatch(line) ==
    CASE line = "120 (euro)" -> "120"
      [] line = "95 (euro)" -> "95"
      [] OTHER -> ""
----------------------------------------------------------------------------
(* The extractors.  Line numbers are 0-based as in the source. *)

LineAt(lines, i) == lines[i + 1]

\* for i, line in enumerate(lines): if <i in hits>: items.append((i, <match>)),
\* where matches[k] is the match on line k
Items(matches, hits) ==
    SelectIdx([k \in DOMAIN matches |-> <<k - 1, matches[k]>>], {i + 1 : i \in hits}, 1)

\* The dates of the Italian extractor: a date match on a line holding 'ott'.
ItalianDates(lines) ==
    Items([k \in DOMAIN lines |-> ItalianDateMatch(lines[k])],
          {i \in 0..(Len(lines) - 1) :
              ItalianDateMatch(LineAt(lines, i)) # <<>> /\ HasOtt(LineAt(lines, i))})

\* The dates of the English extractors: a date match on a line holding 'Oct'.
EnglishDates(lines) ==
    Items([k \in DOMAIN lines |-> EnglishDateMatch(lines[k])],
          {i \in 0..(Len(lines) - 1) :
              EnglishDateMatch(LineAt(lines, i)) # <<>> /\ HasOct(LineAt(lines, i))})

Times(lines) ==
    Items([k \in DOMAIN lines |-> TimeMatch(lines[k])],
          {i \in 0..(Len(lines) - 1) : TimeMatch(LineAt(lines, i)) # ""})

\* for j in range(i+1, min(i+5, len(lines))): the lines j that hold a first
\* airport code and are followed by a line that starts with one
AirportLines(lines, i) ==
    {j \in (i + 1)..(Min(i + 5, Len(lines)) - 1) :
        /\ AirportMatch(LineAt(lines, j)) # ""
        /\ j + 1 < Len(lines)
        /\ NextAirportMatch(LineAt(lines, j + 1)) # ""}

\* f"{airport_match.group(1)}-{next_airport.group(1)}" at the first such line
AirportPair(lines, i) ==
    LET j == CHOOSE j \in AirportLines(lines, i) :
                 \A h \in AirportLines(lines, i) : j <= h
    IN AirportMatch(LineAt(lines, j)) \o "-" \o NextAirportMatch(LineAt(lines, j + 1))

\* One airport pair per time line that has one, filed under the time's line.
Airports(lines) ==
    SelectIdx([k \in 1..Len(lines) |->
                  <<k - 1, IF AirportLines(lines, k - 1) = {} THEN ""
                           ELSE AirportPair(lines, k - 1)>>],
              {k \in 1..Len(lines) :
                  TimeMatch(lines[k]) # "" /\ AirportLines(lines, k - 1) # {}}, 1)

\* Mutant of PriceWindow: the window reaches one line further down.
PriceWindow_OneMore(lines, i) == Max(0, i - 5)..Min(Len(lines) - 1, i + 5)

\* range(max(0, i-5), min(len(lines), i+5))
PriceWindow(lines, i) == Max(0, i - 5)..(Min(Len(lines), i + 5) - 1)

\* The price match of every line, in the Italian and in the English format.
ItalianPrices(lines) == [k \in DOMAIN lines |-> ItalianPriceMatch(lines[k])]

EnglishPrices(lines) == [k \in DOMAIN lines |-> EnglishPriceMatch(lines[k])]

\* The price the inner loop stops at: that of the first line of the window
\* that holds one, "" when none does.
WindowPrice(prices, i) ==
    IF \A j \in PriceWindow(prices, i) : LineAt(prices, j) = "" THEN ""
    ELSE LineAt(prices, CHOOSE j \in PriceWindow(prices, i) :
                           /\ LineAt(prices, j) # ""
                           /\ \A h \in PriceWindow(prices, i) :
                                 LineAt(prices, h) # "" => j <= h)

\* The Italian price loop from line i on: price_found stops every later assignment.
RECURSIVE ItalianPriceLoop(_, _, _, _, _)
ItalianPriceLoop(lines, prices, i, price, price_found) ==
    IF i >= Len(lines) THEN price
    ELSE IF /\ ItalianKeyword(LineAt(lines, i))
            /\ ~price_found
            /\ WindowPrice(prices, i) # ""
         THEN ItalianPriceLoop(lines, prices, i + 1, WindowPrice(prices, i), TRUE)
         ELSE ItalianPriceLoop(lines, prices, i + 1, price, price_found)

\* The English single price loop from line i on: every keyword line whose
\* window holds a price assigns data['price'] again.
RECURSIVE EnglishPriceLoop(_, _, _, _)
EnglishPriceLoop(lines, prices, i, price) ==
    IF i >= Len(lines) THEN price
    ELSE IF EnglishKeyword(LineAt(lines, i)) /\ WindowPrice(prices, i) # ""
         THEN EnglishPriceLoop(lines, prices, i + 1, WindowPrice(prices, i))
         ELSE EnglishPriceLoop(lines, prices, i + 1, price)

\* prices of the double extractor: one entry per keyword line whose window
\* holds a price, filed under the keyword's line.
PricesFound(lines, prices) ==
    SelectIdx([k \in 1..Len(lines) |-> <<k - 1, WindowPrice(prices, k - 1)>>],
              {k \in 1..Len(lines) :
                  EnglishKeyword(lines[k]) /\ WindowPrice(prices, k - 1) # ""}, 1)

DoublePrices(lines) == PricesFound(lines, EnglishPrices(lines))

\* The f-string label, kept as the tuple of the fields it joins.
Label(d) == <<d.direction1, d.direction2, d.date1, d.date2, d.time1, d.time2>>

\* The label is set when the condition on the assigned fields holds.
WithLabel(d, labelled) == IF labelled THEN [d EXCEPT !.label = Label(d)] ELSE d

\* if data['direction1'] and data['date1'] and data['date2']
SingleLabelled(d) == d.direction1 # "" /\ d.date1 # <<>> /\ d.date2 # <<>>

\* normalize_italian_date(d) in the Italian extractor, d in the English one
NormIf(normalize, d) == IF normalize THEN normalize_italian_date(d) ELSE d

SingleFields(email_date, dates, times, airports, price, normalize) ==
    [date |-> email_date,
     direction1 |-> IF Len(airports) >= 2 THEN airports[1][2] ELSE "",
     date1 |-> IF Len(dates) >= 2 THEN NormIf(normalize, dates[1][2]) ELSE <<>>,
     time1 |-> IF Len(times) >= 2 THEN times[1][2] ELSE "",
     direction2 |-> IF Len(airports) >= 2 THEN airports[2][2] ELSE "",
     date2 |-> IF Len(dates) >= 2 THEN NormIf(normalize, dates[2][2]) ELSE <<>>,
     time2 |-> IF Len(times) >= 2 THEN times[2][2] ELSE "",
     price |-> price,
     label |-> <<>>]

LabelSingle(d) == WithLabel(d, SingleLabelled(d))

\* The "Assign data" and "Create label" parts of the two single extractors;
\* normalize tells whether the dates are normalized.
AssignSingle(email_date, dates, times, airports, price, normalize) ==
    LabelSingle(SingleFields(email_date, dates, times, airports, price, normalize))

extract_italian_single_flight(text, email_date) ==
    AssignSingle(email_date, ItalianDates(text), Times(text), Airports(text),
                 ItalianPriceLoop(text, ItalianPrices(text), 0, "", FALSE), TRUE)

extract_english_single_flight(text, email_date) ==
    AssignSingle(email_date, EnglishDates(text), Times(text), Airports(text),
                 EnglishPriceLoop(text, EnglishPrices(text), 0, ""), FALSE)

\* mid_line = 700  # Default fallback
DefaultMidLine == 700

\* the "- 20" of the second flight's filters
Overlap == 20

\* if len(dates) >= 4: mid_line = dates[2][0]  else: mid_line = 700
MidLine(dates) == IF Len(dates) >= 4 THEN dates[3][1] ELSE DefaultMidLine

\* [d for d in items if d[0] < mid_line]
FirstFlightItems(items, mid_line) ==
    SelectIdx(items, {k \in DOMAIN items : items[k][1] < mid_line}, 1)

\* [d for d in items if d[0] >= mid_line - 20]
SecondFlightItems(items, mid_line) ==
    SelectIdx(items, {k \in DOMAIN items : items[k][1] >= mid_line - Overlap}, 1)

\* The two items a flight is given: the first two of flight 1's list, the last
\* two of flight 2's ([-2] and [-1]); <<>> when the list has fewer than two.
FirstTwo(items) == IF Len(items) >= 2 THEN <<items[1], items[2]>> ELSE <<>>

LastTwo(items) ==
    IF Len(items) >= 2 THEN <<items[Len(items) - 1], items[Len(items)]>> ELSE <<>>

\* if flight['direction1']
DoubleLabelled(d) == d.direction1 # ""

DoubleFields(email_date, dates, times, airports, price) ==
    [date |-> email_date,
     direction1 |-> IF airports # <<>> THEN airports[1][2] ELSE "",
     date1 |-> IF dates # <<>> THEN normalize_italian_date(dates[1][2]) ELSE <<>>,
     time1 |-> IF times # <<>> THEN times[1][2] ELSE "",
     direction2 |-> IF airports # <<>> THEN airports[2][2] ELSE "",
     date2 |-> IF dates # <<>> THEN normalize_italian_date(dates[2][2]) ELSE <<>>,
     time2 |-> IF times # <<>> THEN times[2][2] ELSE "",
     price |-> price,
     label |-> <<>>]

LabelDouble(d) == WithLabel(d, DoubleLabelled(d))

\* One flight of the double extractor from the two items of each kind it is
\* given (<<>> for fewer than two) and its price.
AssignDouble(email_date, dates, times, airports, price) ==
    LabelDouble(DoubleFields(email_date, dates, times, airports, price))

\* The items (line, value) given to flight 1: the first two below mid_line.
Flight1Items(dates, times, airports, mid_line) ==
    [dates |-> FirstTwo(FirstFlightItems(dates, mid_line)),
     times |-> FirstTwo(FirstFlightItems(times, mid_line)),
     airports |-> FirstTwo(FirstFlightItems(airports, mid_line))]

\* The items (line, value) given to flight 2: the last two from mid_line - 20 on.
Flight2Items(dates, times, airports, mid_line) ==
    [dates |-> LastTwo(SecondFlightItems(dates, mid_line)),
     times |-> LastTwo(SecondFlightItems(times, mid_line)),
     airports |-> LastTwo(SecondFlightItems(airports, mid_line))]

\* Mutant of Flight1Price: flight 1 is given a price only when exactly one was found.
Flight1Price_OnlyOne(prices) == IF Len(prices) = 1 THEN prices[1][2] ELSE ""

\* if len(prices) >= 1: flight1['price'] = prices[0][1]
Flight1Price(prices) == IF Len(prices) >= 1 THEN prices[1][2] ELSE ""

\* if len(prices) >= 2: flight2['price'] = prices[1][1]
Flight2Price(prices) == IF Len(prices) >= 2 THEN prices[2][2] ELSE ""

\* return [flight1, flight2]
TwoFlights(email_date, f1, f2, prices) ==
    << AssignDouble(email_date, f1.dates, f1.times, f1.airports, Flight1Price(prices)),
       AssignDouble(email_date, f2.dates, f2.times, f2.airports, Flight2Price(prices)) >>

SplitFlights(email_date, dates, times, airports, prices, mid_line) ==
    TwoFlights(email_date, Flight1Items(dates, times, airports, mid_line),
               Flight2Items(dates, times, airports, mid_line), prices)

extract_english_double_flight(text, email_date) ==
    SplitFlights(email_date, EnglishDates(text), Times(text), Airports(text),
                 DoublePrices(text), MidLine(EnglishDates(text)))

----------------------------------------------------------------------------
(* extract_date_from_email *)

\* parsedate_to_datetime(date_str).strftime("%a, %d %b %Y"); "" when it raises
HeaderDate(date_str) ==
    CASE date_str = "Thu, 23 Oct 2025 10:00:00 +0000" -> "Thu, 23 Oct 2025"
      [] date_str = "Fri, 24 Oct 2025 08:30:00 +0200" -> "Fri, 24 Oct 2025"
      [] OTHER -> ""

\* len(line): (euro) stands for one character
LineLen(line) ==
    CASE line \in {"120 (euro)", "(euro) 120"} -> 5
      [] line \in {"95 (euro)", "(euro) 95"} -> 4
      [] OTHER -> Len(line)

\* re.search(r'(\d{1,2}\s+\w+\s+\d{4})', line): <<group(1), match end>>
TextDateMatch1(line) ==
    IF line = "Sent 23 October 2025" THEN <<"23 October 2025", 20>> ELSE <<"", 0>>

\* re.search(r'(\w+,\s+\d{1,2}\s+\w+\s+\d{4})', line): no line of the vocabulary matches
TextDateMatch2(line) == <<"", 0>>

\* offset of line k (1-based) in the text: the lines before it and their '\n'
RECURSIVE Offset(_, _)
Offset(text, k) == IF k = 1 THEN 0 ELSE Offset(text, k - 1) + LineLen(text[k - 1]) + 1

\* text[:500]
TextPrefix == 500

\* re.search(pattern, text[:500]).group(1), "" for no match; matches[k] is the
\* match of the pattern on line k
TextDate(text, matches) ==
    IF \A k \in DOMAIN text :
          matches[k][1] = "" \/ Offset(text, k) + matches[k][2] > TextPrefix
    THEN ""
    ELSE matches[CHOOSE k \in DOMAIN text :
                    /\ matches[k][1] # ""
                    /\ Offset(text, k) + matches[k][2] <= TextPrefix
                    /\ \A h \in 1..(k - 1) :
                          matches[h][1] = "" \/ Offset(text, h) + matches[h][2] > TextPrefix][1]

\* The first pattern that matches gives the date.
FirstNonEmpty(a, b) == IF a # "" THEN a ELSE b

TextSearch(text) ==
    FirstNonEmpty(TextDate(text, [k \in DOMAIN text |-> TextDateMatch1(text[k])]),
                  TextDate(text, [k \in DOMAIN text |-> TextDateMatch2(text[k])]))

extract_date_from_email(email_message, text) ==
    IF email_message.date # "" /\ HeaderDate(email_message.date) # ""
    THEN HeaderDate(email_message.date)
    ELSE TextSearch(text)

----------------------------------------------------------------------------
(* parse_mbox_file, save_to_csv, plot_prices, main *)

\* Mutant of Retained: the price test is left out.
Retained_KeepAll(records) == records

\* if flight_data['price']: all_flights.append(flight_data), for each record
\* an extractor returned
Retained(records) ==
    SelectIdx(records, {k \in DOMAIN records : records[k].price # ""}, 1)

\* The if/elif chain of the loop body: the extractors called and the records
\* appended to all_flights, for a detected type.
Dispatch(email_type, text, email_date) ==
    IF email_type = "None"
    THEN [type |-> email_type, ran |-> {}, added |-> <<>>]
    ELSE IF email_type = "italian_single"
    THEN [type |-> email_type, ran |-> {"extract_italian_single_flight"},
          added |-> Retained(<<extract_italian_single_flight(text, email_date)>>)]
    ELSE IF email_type = "english_single"
    THEN [type |-> email_type, ran |-> {"extract_english_single_flight"},
          added |-> Retained(<<extract_english_single_flight(text, email_date)>>)]
    ELSE IF email_type = "english_double"
    THEN [type |-> email_type, ran |-> {"extract_english_double_flight"},
          added |-> Retained(extract_english_double_flight(text, email_date))]
    ELSE [type |-> email_type, ran |-> {}, added |-> <<>>]

\* Mutant of LoopBodyOn: an unrecognised message is not skipped but handed to
\* the Italian extractor.
LoopBodyOn_NoSkip(message, text) ==
    Dispatch(IF detect_email_type(text) = "None" THEN "italian_single"
             ELSE detect_email_type(text),
             text, extract_date_from_email(message, text))

\* The loop body once the text is extracted.
LoopBodyOn(message, text) ==
    Dispatch(detect_email_type(text), text, extract_date_from_email(message, text))

\* One iteration of the loop of parse_mbox_file.
LoopBody(message) == LoopBodyOn(message, extract_text_from_email(message))

Fieldnames ==
    <<"date", "direction1", "date1", "time1", "direction2", "date2", "time2",
      "price", "label">>

\* writer.writerow(flight): the values of the fields, in the order of fieldnames
Row(flight) == [i \in DOMAIN Fieldnames |-> flight[Fieldnames[i]]]

\* Mutant of DfEmpty: a frame with a single row counts as empty.
DfEmpty_OffByOne(rows) == Len(rows) <= 2

\* df.empty after pd.read_csv: no row below the header
DfEmpty(rows) == Len(rows) <= 1

----------------------------------------------------------------------------
(* Inputs of the pipeline *)

\* The most messages of a collection with several messages.
MaxMsgs == 3

MarkerLines ==
    <<"Il prezzo dei tuoi voli", "Da Zurigo a Lisbona",
      "Price updates for 2 saved flights", "Zurich to Lisbon",
      "Your price alert", "flights have gone down">>

\* The marker lines chosen, in the order above.
MarkerBlock(chosen) == SelectIdx(MarkerLines, chosen, 1)

ItalianBlock ==
    <<"prezzo aumentato", "<E2><82><AC> 120", "gio 23 ott", "10:40 -", "ZRH -", "LIS",
      "mar 28 ott", "18:05 -", "LIS -", "ZRH">>

EnglishBlock ==
    <<"The price has gone down", "95 <E2><82><AC>", "Fri, 24 Oct", "10:40 -", "",
      "ZRH -", "LIS", "Mon, 27 Oct", "18:05 -", "", "LIS -", "ZRH">>

SecondBlock ==
    <<"Sat, 25 Oct", "07:15 -", "ZRH -", "LIS", "Tue, 28 Oct", "21:30 -", "LIS -",
      "ZRH", "", "", "", "The price has gone down", "caf<E9>", "120 <E2><82><AC>">>

\* A flight block without a price-change line.
QuietBlock == <<"Fri, 24 Oct", "10:40 -", "ZRH -", "LIS", "95 <E2><82><AC>", "<FF>">>

ContentBlocks ==
    {<<>>, ItalianBlock, EnglishBlock, EnglishBlock \o SecondBlock, QuietBlock,
     ItalianBlock \o EnglishBlock}

Plain(payload, date) ==
    [multipart |-> FALSE, date |-> date,
     parts |-> <<[ctype |-> "text/plain", payload |-> payload]>>]

Multipart(parts, date) == [multipart |-> TRUE, date |-> date, parts |-> parts]

\* Every choice of marker lines before every content block, as a message that
\* is not multipart and has no Date header.
SingleMessages ==
    {Plain(MarkerBlock(chosen) \o content \o <<"Sent 23 October 2025">>, "") :
        chosen \in SUBSET (1..Len(MarkerLines)), content \in ContentBlocks}

\* The messages of the collections with several messages.
MessagePool ==
    { Plain(<<"Il prezzo dei tuoi voli">> \o ItalianBlock,
            "Thu, 23 Oct 2025 10:00:00 +0000"),
      Plain(<<"Zurich to Lisbon", "Your flights have gone up">> \o EnglishBlock,
            "Fri, 24 Oct 2025 08:30:00 +0200"),
      Multipart(<< [ctype |-> "text/html", payload |-> <<"Zurich to Lisbon">>],
                   [ctype |-> "text/plain",
                    payload |-> <<"Price updates for 2 saved flights">>
                                \o EnglishBlock \o SecondBlock] >>,
                "Thu, 23 Oct 2025 10:00:00 +0000"),
      Plain(<<"Price updates for 2 saved flights">> \o EnglishBlock, "not a date"),
      Multipart(<< [ctype |-> "text/html",
                    payload |-> <<"Il prezzo dei tuoi voli">> \o ItalianBlock] >>,
                "Fri, 24 Oct 2025 08:30:00 +0200") }

Mailboxes ==
    {<<>>} \cup {<<m>> : m \in SingleMessages} \cup SeqsOf(MessagePool, 1, MaxMsgs)

----------------------------------------------------------------------------
(* The run of main *)

Init ==
    /\ pc = "parse"
    /\ mbox \in Mailboxes
    /\ idx = 0
    /\ all_flights = <<>>
    /\ csv = [exists |-> FALSE, rows |-> <<>>]
    /\ plot = FALSE
    /\ log = <<>>
    /\ arg = "-"
    /\ res = "-"

\* for message in mbox: one iteration
ProcessMessage ==
    /\ pc = "parse"
    /\ idx < Len(mbox)
    /\ \E done \in {LoopBody(mbox[idx + 1])} :
          /\ all_flights' = all_flights \o done.added
          /\ log' = Append(log, done)
    /\ idx' = idx + 1
    /\ UNCHANGED <<pc, mbox, csv, plot, arg, res>>

\* parse_mbox_file returns; if flights: save_to_csv opens the file for
\* writing and writes the header
SaveHeader ==
    /\ pc = "parse"
    /\ idx = Len(mbox)
    /\ all_flights # <<>>
    /\ csv' = [exists |-> TRUE, rows |-> <<Fieldnames>>]
    /\ pc' = "save"
    /\ UNCHANGED <<mbox, idx, all_flights, plot, log, arg, res>>

\* parse_mbox_file returns; else: print("No flight data found in mbox file")
NoData ==
    /\ pc = "parse"
    /\ idx = Len(mbox)
    /\ all_flights = <<>>
    /\ pc' = "done"
    /\ UNCHANGED <<mbox, idx, all_flights, csv, plot, log, arg, res>>

\* Mutant of WriteRow: the records are written last to first.
WriteRow_Reversed ==
    /\ pc = "save"
    /\ Len(csv.rows) - 1 < Len(all_flights)
    /\ csv' = [csv EXCEPT !.rows =
                  Append(@, [i \in DOMAIN Fieldnames |->
                                all_flights[Len(all_flights) - (Len(csv.rows) - 1)]
                                           [Fieldnames[i]]])]
    /\ UNCHANGED <<pc, mbox, idx, all_flights, plot, log, arg, res>>

\* for flight in flights: writer.writerow(flight)
WriteRow ==
    /\ pc = "save"
    /\ Len(csv.rows) - 1 < Len(all_flights)
    /\ csv' = [csv EXCEPT !.rows = Append(@, Row(all_flights[Len(csv.rows)]))]
    /\ UNCHANGED <<pc, mbox, idx, all_flights, plot, log, arg, res>>

\* the with block ends; save_to_csv returns
SaveDone ==
    /\ pc = "save"
    /\ Len(csv.rows) - 1 = Len(all_flights)
    /\ pc' = "plot"
    /\ UNCHANGED <<mbox, idx, all_flights, csv, plot, log, arg, res>>

\* plot_prices(csv_path): nothing is drawn for an empty frame
PlotPrices ==
    /\ pc = "plot"
    /\ plot' = IF DfEmpty(csv.rows) THEN plot ELSE TRUE
    /\ pc' = "done"
    /\ UNCHANGED <<mbox, idx, all_flights, csv, log, arg, res>>

Next == ProcessMessage \/ SaveHeader \/ NoData \/ WriteRow \/ SaveDone \/ PlotPrices

Spec == Init /\ [][Next]_vars

----------------------------------------------------------------------------
(* Properties of the run of main *)

\* The text parse_mbox_file reads from message i of the collection.
TextOf(i) == extract_text_from_email(mbox[i])

\* The markers of the three variants, read off the lines of a text.
HasItalianMarker(text) ==
    \E l \in Range(text) : l \in {"Il prezzo dei tuoi voli", "Da Zurigo a Lisbona"}

HasDoubleMarker(text) == \E l \in Range(text) : l = "Price updates for 2 saved flights"

HasSingleMarkers(text) ==
    /\ \E l \in Range(text) : l = "Zurich to Lisbon"
    /\ \E l \in Range(text) : l \in {"Your price alert", "Your flights have gone up"}
    /\ \E l \in Range(text) :
          l \in {"Your flights have gone up", "flights have gone down"}

\* C1: every record of the result of parse_mbox_file has a non-empty price;
\* a record an extractor returned with an empty price is not appended, and
\* each of the two records of an english_double message is kept or dropped on
\* its own price.
C1_RetainedHavePrice ==
    /\ \A k \in DOMAIN all_flights : all_flights[k].price # ""
    /\ \A i \in DOMAIN log :
          /\ \A k \in DOMAIN log[i].added : log[i].added[k].price # ""
          /\ \A text \in {TextOf(i)} :
             \A date \in {extract_date_from_email(mbox[i], text)} :
                /\ log[i].type = "english_double" =>
                      \A fl \in {extract_english_double_flight(text, date)} :
                         \A n \in 1..2 :
                            (fl[n].price # "") <=> (fl[n] \in Range(log[i].added))
                /\ log[i].type = "italian_single" =>
                      \A r \in {extract_italian_single_flight(text, date)} :
                         (r.price # "") <=> (log[i].added = <<r>>)
                /\ log[i].type = "english_single" =>
                      \A r \in {extract_english_single_flight(text, date)} :
                         (r.price # "") <=> (log[i].added = <<r>>)

\* C1 witness: an english_double message whose second record had no price and
\* was dropped while its first record was kept.
C1_Witness ==
    \E i \in DOMAIN log :
        /\ log[i].type = "english_double"
        /\ Len(log[i].added) = 1
        /\ all_flights # <<>>

\* C2: a message whose text matches no variant adds no record, leaves the
\* records collected so far as they are, and the loop goes on: once the loop
\* has ended every message of the collection has been iterated over.
C2_UnparseableSkipped ==
    /\ [][(pc = "parse" /\ idx < Len(mbox)
             /\ ~HasItalianMarker(TextOf(idx + 1))
             /\ ~HasDoubleMarker(TextOf(idx + 1))
             /\ ~HasSingleMarkers(TextOf(idx + 1)))
           => (all_flights' = all_flights /\ idx' = idx + 1 /\ pc' = "parse")]_vars
    /\ [](pc # "parse" => idx = Len(mbox) /\ Len(log) = Len(mbox))

\* C2 witness: a multipart message with no text/plain part was skipped after a
\* record had been collected, the message after it was processed and added its
\* record, and the run went on to its end with exactly those records.
C2_Witness ==
    /\ pc = "done"
    /\ Len(log) = 3
    /\ log[1].added # <<>>
    /\ mbox[2].multipart
    /\ \A k \in DOMAIN mbox[2].parts : mbox[2].parts[k].ctype # "text/plain"
    /\ log[2].type = "None"
    /\ log[3].added # <<>>
    /\ all_flights = log[1].added \o log[3].added

\* C3 as stated: every run of main ends with the tabular file, headed by the
\* fixed column header, and with the chart.
C3_AlwaysFileAndChart ==
    pc = "done" =>
        /\ csv.exists
        /\ csv.rows # <<>>
        /\ csv.rows[1] = <<"date", "direction1", "date1", "time1", "direction2",
                           "date2", "time2", "price", "label">>
        /\ plot

\* C3 amended: a run of main that retained at least one record ends with the
\* tabular file, headed by the fixed column header, and with the chart; a run
\* that retained none writes neither.
C3_FileAndChartWhenRecords ==
    pc = "done" =>
        IF all_flights # <<>>
        THEN /\ csv.exists
             /\ csv.rows # <<>>
             /\ csv.rows[1] = <<"date", "direction1", "date1", "time1", "direction2",
                                "date2", "time2", "price", "label">>
             /\ plot
        ELSE ~csv.exists /\ ~plot

\* C3 witness: a finished run with one retained record, its file and its chart.
C3_Witness == pc = "done" /\ Len(all_flights) = 1 /\ csv.exists /\ plot

\* The records with a price among those an extractor returned, in order.
WithPrice(recs) == SelectIdx(recs, {k \in DOMAIN recs : recs[k].price # ""}, 1)

\* The records a text of a given type contributes: flight 1 before flight 2.
ContributionOf(type, text, date) ==
    IF type = "italian_single"
    THEN WithPrice(<<extract_italian_single_flight(text, date)>>)
    ELSE IF type = "english_single"
    THEN WithPrice(<<extract_english_single_flight(text, date)>>)
    ELSE IF type = "english_double"
    THEN WithPrice(extract_english_double_flight(text, date))
    ELSE <<>>

DateOf(message, text) == extract_date_from_email(message, text)

\* The records message i contributes.
Contribution(i) ==
    ContributionOf(detect_email_type(TextOf(i)), TextOf(i), DateOf(mbox[i], TextOf(i)))

\* The row of a record: its nine fields in the order of the header.
RowOf(f) ==
    <<f.date, f.direction1, f.date1, f.time1, f.direction2, f.date2, f.time2,
      f.price, f.label>>

\* C4: the stages run in order and each record is written once: the file is
\* opened only after every message has been processed, the chart is drawn only
\* after the file is complete, and the file holds, below the header, one row per
\* retained record in the order the records were produced.
C4_StagesAndRows ==
    /\ all_flights = Flatten([i \in 1..idx |-> Contribution(i)])
    /\ csv.exists => idx = Len(mbox) /\ pc \in {"save", "plot", "done"}
    /\ csv.exists =>
          /\ Len(csv.rows) <= Len(all_flights) + 1
          /\ \A k \in 2..Len(csv.rows) : csv.rows[k] = RowOf(all_flights[k - 1])
    /\ (pc \in {"plot", "done"} /\ csv.exists) => Len(csv.rows) = Len(all_flights) + 1
    /\ plot => pc = "done" /\ csv.exists /\ Len(csv.rows) = Len(all_flights) + 1

\* C4 witness: a finished run whose second message is an english_double one
\* with two records, and whose file ends with a row for each of the two.
C4_Witness ==
    /\ pc = "done"
    /\ plot
    /\ Len(log) = 2
    /\ log[1].added # <<>>
    /\ log[2].type = "english_double"
    /\ Len(log[2].added) = 2
    /\ Len(csv.rows) = Len(log[1].added) + 3
    /\ csv.rows[Len(csv.rows)][8] # csv.rows[Len(csv.rows) - 1][8]

\* C7: detection gives exactly one of the four outcomes with the precedence
\* Italian, then two saved flights, then English single (all three markers),
\* else None; and exactly one extractor, that of the type, runs for a
\* recognised message and none for an unrecognised one.
C7_DetectionPrecedence ==
    \A i \in DOMAIN log :
        LET text == TextOf(i)
        IN /\ log[i].type \in {"italian_single", "english_double", "english_single", "None"}
           /\ HasItalianMarker(text) => log[i].type = "italian_single"
           /\ (~HasItalianMarker(text) /\ HasDoubleMarker(text)) =>
                 log[i].type = "english_double"
           /\ (~HasItalianMarker(text) /\ ~HasDoubleMarker(text)
                 /\ HasSingleMarkers(text)) => log[i].type = "english_single"
           /\ (~HasItalianMarker(text) /\ ~HasDoubleMarker(text)
                 /\ ~HasSingleMarkers(text)) => log[i].type = "None"
           /\ log[i].ran = IF log[i].type = "None" THEN {}
                           ELSE {"extract_" \o log[i].type \o "_flight"}

\* C7 witness: a text with an Italian marker, the two-saved-flights marker and
\* the three English single markers was taken as italian_single.
C7_Witness ==
    \E i \in DOMAIN log :
        /\ HasItalianMarker(TextOf(i))
        /\ HasDoubleMarker(TextOf(i))
        /\ HasSingleMarkers(TextOf(i))
        /\ log[i].type = "italian_single"
        /\ log[i].ran = {"extract_italian_single_flight"}

\* C10: an english_double message contributes no record, its flight-1 record,
\* or both records, never the flight-2 record alone; an italian_single or
\* english_single message contributes at most one record.
C10_RecordsPerMessage ==
    \A i \in DOMAIN log :
        /\ log[i].type = "english_double" =>
              \A text \in {TextOf(i)} :
                 \A fl \in {extract_english_double_flight(
                                text, extract_date_from_email(mbox[i], text))} :
                    /\ log[i].added \in {<<>>, <<fl[1]>>, <<fl[1], fl[2]>>}
                    /\ fl[2].price # "" => fl[1].price # ""
                    /\ Len(log[i].added) = 2 =>
                          /\ log[i].added[1].price # ""
                          /\ log[i].added[2].price # ""
        /\ log[i].type \in {"italian_single", "english_single"} =>
              Len(log[i].added) <= 1
        /\ log[i].type = "None" => log[i].added = <<>>

\* C10 witness: an english_double message contributed both of its records.
C10_Witness ==
    \E i \in DOMAIN log :
        /\ log[i].type = "english_double"
        /\ Len(log[i].added) = 2
        /\ log[i].added[1].price # log[i].added[2].price

----------------------------------------------------------------------------
(* The functions on their own: each specification draws an argument and
   applies one function to it. *)

\* The variables of the run of main, at rest.
NoRun ==
    /\ mbox = <<>>
    /\ idx = 0
    /\ all_flights = <<>>
    /\ csv = [exists |-> FALSE, rows |-> <<>>]
    /\ plot = FALSE
    /\ log = <<>>

RunUnchanged == UNCHANGED <<mbox, idx, all_flights, csv, plot, log, arg>>

(* normalize_italian_date *)

ItalianWeekdays == {"lun", "mar", "mer", "gio", "ven", "sab", "dom"}

ItalianMonths ==
    {"gen", "feb", "mar", "apr", "mag", "giu", "lug", "ago", "set", "ott", "nov", "dic"}

DateStrings ==
    {<<w, d, m>> : w \in ItalianWeekdays \cup {"Gio"}, d \in {"3", "23"},
                   m \in ItalianMonths \cup {"OTT"}}
    \cup {<<"Thu", ",", "23", "Oct">>, <<"gio", ",", "23", "ott">>,
          <<"Fri", ",", "24", "Oct">>}

InitNorm == pc = "normalize" /\ arg \in DateStrings /\ res = <<>> /\ NoRun

NormalizeCall ==
    /\ pc = "normalize"
    /\ res' = normalize_italian_date(arg)
    /\ pc' = "normalized"
    /\ RunUnchanged

SpecNorm == InitNorm /\ [][NormalizeCall]_vars

EnglishWeekday(w) ==
    CASE w = "lun" -> "Mon" [] w = "mar" -> "Tue" [] w = "mer" -> "Wed"
      [] w = "gio" -> "Thu" [] w = "ven" -> "Fri" [] w = "sab" -> "Sat"
      [] w = "dom" -> "Sun"

EnglishMonth(m) ==
    CASE m = "gen" -> "Jan" [] m = "feb" -> "Feb" [] m = "mar" -> "Mar"
      [] m = "apr" -> "Apr" [] m = "mag" -> "May" [] m = "giu" -> "Jun"
      [] m = "lug" -> "Jul" [] m = "ago" -> "Aug" [] m = "set" -> "Sep"
      [] m = "ott" -> "Oct" [] m = "nov" -> "Nov" [] m = "dic" -> "Dec"

\* C6: a date '<weekday> <day> <month>' without a comma comes back with the
\* English weekday, a comma, the day and the English month; a date that holds a
\* comma comes back unchanged.
C6_EveryWeekdayAndMonth ==
    pc = "normalized" =>
        /\ "," \in Range(arg) => res = arg
        /\ (Len(arg) = 3 /\ arg[1] \in ItalianWeekdays /\ arg[3] \in ItalianMonths) =>
              res = <<EnglishWeekday(arg[1]), ",", arg[2], EnglishMonth(arg[3])>>

(* extract_text_from_email *)

\* The most lines of an encoded payload.
MaxPayloadLines == 2

EncodedLines ==
    {"Zurich to Lisbon", "caf<E9>", "caf<C3><A9>", "<FF>", "120 <E2><82><AC>"}

Payloads == SeqsOf(EncodedLines, 1, MaxPayloadLines)

DecodeMessages ==
    {Plain(p, "") : p \in Payloads}
    \cup {Multipart(<<[ctype |-> "text/html", payload |-> <<"caf<E9>">>],
                      [ctype |-> "text/plain", payload |-> p]>>, "") : p \in Payloads}
    \cup {Multipart(<<[ctype |-> "text/plain", payload |-> p],
                      [ctype |-> "text/plain", payload |-> <<"<FF>">>]>>, "") :
             p \in Payloads}
    \cup {Multipart(<<[ctype |-> "text/html", payload |-> p]>>, "") : p \in Payloads}

InitDecode == pc = "extract" /\ arg \in DecodeMessages /\ res = <<>> /\ NoRun

ExtractText ==
    /\ pc = "extract"
    /\ res' = extract_text_from_email(arg)
    /\ pc' = "extracted"
    /\ RunUnchanged

SpecDecode == InitDecode /\ [][ExtractText]_vars

\* The payloads the function decodes: that of the first text/plain part of a
\* multipart message, the message's own otherwise.
DecodedPayloads(m) ==
    IF m.multipart
    THEN {m.parts[k].payload : k \in {k \in DOMAIN m.parts :
              /\ m.parts[k].ctype = "text/plain"
              /\ \A h \in 1..(k - 1) : m.parts[h].ctype # "text/plain"}}
    ELSE {m.parts[1].payload}

\* C5: a payload that does not decode as UTF-8 comes back decoded as Latin-1,
\* for the first text/plain part of a multipart message and for a message that
\* is not multipart.
C5_Latin1WhenNotUtf8 ==
    pc = "extracted" =>
        \A p \in DecodedPayloads(arg) :
            (Range(p) \cap InvalidUtf8Lines # {}) =>
                res = [k \in DOMAIN p |-> Latin1Line(p[k])]

(* extract_english_double_flight *)

\* The most lines of a text given to the double extractor on its own.
MaxDoubleLines == 6

DoubleLines == {"Fri, 24 Oct", "10:40 -", "ZRH -", "LIS", ""}

InitDouble ==
    pc = "split" /\ arg \in SeqsOf(DoubleLines, 1, MaxDoubleLines) /\ res = <<>> /\ NoRun

SplitCall ==
    /\ pc = "split"
    /\ res' = extract_english_double_flight(arg, "")
    /\ pc' = "assigned"
    /\ RunUnchanged

SpecDouble == InitDouble /\ [][SplitCall]_vars

\* The lines of the items of a list.
LinesOf(items) == {items[k][1] : k \in DOMAIN items}

\* Two lists of items given to flight 1 and to flight 2 share no item, and each
\* item of flight 1 comes from a line before that of its counterpart of flight 2.
Apart(a, b) ==
    /\ LinesOf(a) \cap LinesOf(b) = {}
    /\ (a # <<>> /\ b # <<>>) => (a[1][1] < b[1][1] /\ a[2][1] < b[2][1])

ApartFlights(f1, f2) ==
    /\ Apart(f1.dates, f2.dates)
    /\ Apart(f1.times, f2.times)
    /\ Apart(f1.airports, f2.airports)

\* C8: the dates, times and airport pairs given to flight 1 come from lines
\* strictly before those of their counterparts given to flight 2, and no date,
\* time or airport pair is given to both flights.
C8_FlightsApart ==
    pc = "assigned" =>
        ApartFlights(
            Flight1Items(EnglishDates(arg), Times(arg), Airports(arg),
                         MidLine(EnglishDates(arg))),
            Flight2Items(EnglishDates(arg), Times(arg), Airports(arg),
                         MidLine(EnglishDates(arg))))

(* The price search of the three extractors *)

\* The number of lines of the texts given to the price search.
PriceLines == 12

\* A text of n lines with a keyword on the lines of K, a price on line p1 and,
\* unless p2 is 0, another on line p2 (lines counted from 1).
PriceText(n, kw, pr1, pr2, K, p1, p2) ==
    [k \in 1..n |->
        IF k \in K THEN kw ELSE IF k = p1 THEN pr1 ELSE IF k = p2 THEN pr2 ELSE ""]

\* One or two keyword lines among n.
KeywordPlaces(n) == {{a, b} : a \in 1..n, b \in 1..n}

PriceArgs(n) ==
    {[lang |-> "italian_single",
      text |-> PriceText(n, "prezzo aumentato", "(euro) 120", "(euro) 95", K, p1, p2)] :
        K \in KeywordPlaces(n), p1 \in 1..n, p2 \in 0..n}
    \cup
    {[lang |-> l,
      text |-> PriceText(n, "The price has gone down", "120 (euro)", "95 (euro)",
                         K, p1, p2)] :
        l \in {"english_single", "english_double"},
        K \in KeywordPlaces(n), p1 \in 1..n, p2 \in 0..n}

InitPrice == pc = "search" /\ arg \in PriceArgs(PriceLines) /\ res = <<>> /\ NoRun

PriceCall ==
    /\ pc = "search"
    /\ res' = IF arg.lang = "italian_single"
              THEN <<extract_italian_single_flight(arg.text, "")>>
              ELSE IF arg.lang = "english_single"
              THEN <<extract_english_single_flight(arg.text, "")>>
              ELSE extract_english_double_flight(arg.text, "")
    /\ pc' = "priced"
    /\ RunUnchanged

SpecPrice == InitPrice /\ [][PriceCall]_vars

\* Line i (from 0) of the argument holds a price-change keyword of its language.
KeywordAt(i) ==
    IF arg.lang = "italian_single" THEN ItalianKeyword(arg.text[i + 1])
    ELSE EnglishKeyword(arg.text[i + 1])

\* The price on line j (from 0) of the argument in the format of its language.
PriceAt(j) ==
    IF arg.lang = "italian_single" THEN ItalianPriceMatch(arg.text[j + 1])
    ELSE EnglishPriceMatch(arg.text[j + 1])

\* The lines i-5 .. i+4 that exist.
Neighbourhood(i) ==
    {j \in (i - 5)..(i + 4) : 0 <= j /\ j <= Len(arg.text) - 1}

\* C9: a reported price is that of the first line holding a price among the
\* lines i-5 .. i+4 (those that exist) of some keyword line i; when no keyword
\* line has a price among these lines, no price is reported.
C9_PriceFromNeighbourhood ==
    pc = "priced" =>
        \A k \in DOMAIN res :
            /\ res[k].price # "" =>
                  \E i \in 0..(Len(arg.text) - 1) :
                      /\ KeywordAt(i)
                      /\ \E j \in Neighbourhood(i) :
                            /\ PriceAt(j) = res[k].price
                            /\ \A h \in Neighbourhood(i) : h < j => PriceAt(h) = ""
            /\ (\A i \in 0..(Len(arg.text) - 1) :
                    KeywordAt(i) => \A j \in Neighbourhood(i) : PriceAt(j) = "")
                  => res[k].price = ""

\* C9 witness: the keyword is on line 6, a price on line 0 (outside 1 .. 10) and
\* another on line 10; the price of line 10 is the one reported.
C9_Witness ==
    /\ pc = "priced"
    /\ arg.lang = "italian_single"
    /\ arg.text[7] = "prezzo aumentato"
    /\ arg.text[1] = "(euro) 95"
    /\ arg.text[11] = "(euro) 120"
    /\ Len(res) = 1
    /\ res[1].price = "120"

====
